---- MODULE Spec2Model ----
(***************************************************************************)
(* Superlight client of lightclients/poc-superlight-client:               *)
(*   - SuperlightClient.sync and its bisection games (prover/iprover.ts)   *)
(*   - DummyStoreProver / DummyStoreVerifier (store/dummy-store.ts)        *)
(*                                                                         *)
(* Byte strings (Uint8Array) are sequences of atoms <<tag, payload>>.      *)
(* A digest is two atoms wide: a head atom that carries the hashed bytes   *)
(* (the hash is injective: collision resistance) and a fixed tail atom, so *)
(* that a byte string can be cut inside a digest.  A public key is one     *)
(* atom wide.                                                              *)
(***************************************************************************)
EXTENDS Integers, Sequences, FiniteSets, TLC

VARIABLES
    \* ---- the world of one sync() ----
    size,              \* DummyStoreVerifier.size: currentPeriod - genesisPeriod
    provers,           \* this.provers: "honest" or "adversary" period slot
    \* ---- SuperlightClient.sync ----
    pc,                \* the await the client is suspended at
    i,                 \* sync: index of the audit loop
    validProverInfos,  \* sync: the provers that passed the MMR audit
    winners,           \* tournament: the current winners
    ti,                \* tournament: index i of its loop
    peak,              \* peaksVsPeaks: index i of the first differing peak
    offset,            \* peaksVsPeaks: leaves left of that peak
    stepsToLeafs,      \* treeVsTree
    node1,             \* treeVsTree
    node2,             \* treeVsTree
    index,             \* treeVsTree
    nodeInfo1,         \* treeVsTree: answer of prover1, while prover2 is asked
    period,            \* checkNodeAndPrevUpdate
    committee1,        \* checkNodeAndPrevUpdate
    committee2,        \* checkNodeAndPrevUpdate
    prevCommittee,     \* checkNodeAndPrevUpdate
    is1Correct,        \* checkNodeAndPrevUpdate
    wi,                \* sync: position in winners of the final loop
    result,            \* what sync() returned or threw
    \* ---- observation ----
    queries,           \* queries of the current game, by kind and side
    games,             \* peaksVsPeaks invocations so far
    last,              \* the last answer received and what was decided on it
    \* ---- DummyStoreProver / DummyStoreVerifier unit ----
    sp,          \* the DummyStoreProver instance under test
    sv,          \* the last syncUpdateVerify call: inputs and outcome
    \* ---- VerifiedProvider (rpc-proxy/verifiedProvider.ts) ----
    blockHashes,        \* this.blockHashes: block number -> hash
    blockHeaders,       \* this.blockHeaders: the verified headers, by hash
    latestBlockNumber,  \* this.latestBlockNumber
    oldestBlockNumber,  \* this.oldestBlockNumber
    calls               \* the invocations of call(): where each is suspended, its locals

storeVars == <<sp, sv>>
providerVars == <<blockHashes, blockHeaders, latestBlockNumber, oldestBlockNumber, calls>>
\* what neither sync() nor the store unit writes
worldVars == <<size, provers, providerVars>>
gameVars == <<peak, offset, stepsToLeafs, node1, node2, index, nodeInfo1,
              period, committee1, committee2, prevCommittee, is1Correct>>
syncVars == <<pc, i, validProverInfos, winners, ti, wi, result>>
obsVars == <<queries, games, last>>
vars == <<worldVars, syncVars, gameVars, obsVars, storeVars>>

(***************************************************************************)
(* Bounds and program constants                                            *)
(***************************************************************************)
N == 2                 \* fan-out n of the client
CommitteeSize == 2     \* keys period committee
MaxChain == 4          \* largest chain size of a DummyStoreProver under test
MaxSize == 2           \* largest store size of a sync() (mmrSize = size + 1)
MaxProvers == 3        \* most provers of a sync()
DeepDepth == 3         \* depth of the single peak of the two-prover games
LiveDepth == 2         \* depth of the single peak of the runs checked for termination
TrustedBlock == 3      \* number of the block given to the VerifiedProvider constructor
MAX_BLOCK_HISTORY == 2 \* stands for the constant of rpc-proxy/constants
MaxCalls == 2          \* concurrent invocations of VerifiedProvider.call
MaxAccess == 2         \* most addresses of an access list

(***************************************************************************)
(* Bytes, hashing                                                          *)
(***************************************************************************)
KeyAtom(c, p, j) == <<"k", <<c, p, j>>>>
NumAtom(x) == <<"n", <<x>>>>
TailAtom == <<"t", <<>>>>
JunkAtom == <<"z", <<>>>>

\* concatUint8Array: byte concatenation (it forgets the boundaries)
RECURSIVE concatUint8Array(_)
concatUint8Array(data) ==
    IF Len(data) = 0 THEN <<>>
    ELSE Head(data) \o concatUint8Array(Tail(data))

\* digest: sha256, collision resistant, fixed width
digest(bytes) == << <<"h", bytes>>, TailAtom >>

IsDigest(b) == Len(b) = 2 /\ b[1][1] = "h" /\ b[2] = TailAtom
Preimage(d) == d[1][2]

isUint8ArrayEq(a, b) == a = b

numberToUint8Array(x) == <<NumAtom(x)>>

(***************************************************************************)
(* BLS keys and signatures (symbolic)                                      *)
(***************************************************************************)
\* public key bytes of the j-th key of the committee of period p;
\* c = 0: keys of the seeded generator, c > 0: keys of SecretKey.fromKeygen()
PubKey(c, p, j) == <<KeyAtom(c, p, j)>>

\* PublicKey.fromBytes succeeds on the bytes of one key and throws otherwise
IsPublicKey(pk) == Len(pk) = 1 /\ pk[1][1] = "k"

\* Signature.aggregate(signatures).toBytes() of the keys of a committee
AggregateSign(committee, msg) == <<"sig", committee, msg>>
\* new Uint8Array(96)
ZeroSignature == <<"zero", <<>>, <<>>>>

\* Signature.fromBytes(sig).verifyAggregate(keys, msg); throws on bytes that
\* are no signature
SignatureParses(sig) == sig[1] = "sig"
verifyAggregate(sig, keys, msg) ==
    /\ Len(keys) > 0
    /\ sig[2] = keys
    /\ sig[3] = msg

(***************************************************************************)
(* dummy-store.ts                                                          *)
(***************************************************************************)
NoHeader == [present |-> FALSE, hasNext |-> FALSE, nextCommittee |-> <<>>, epoch |-> 0]
Header(nextCommittee, epoch) ==
    [present |-> TRUE, hasNext |-> TRUE, nextCommittee |-> nextCommittee, epoch |-> epoch]
NoUpdate == [present |-> FALSE, header |-> NoHeader, aggregateSignature |-> ZeroSignature]
Update(header, sig) == [present |-> TRUE, header |-> header, aggregateSignature |-> sig]

hashHeader(header) ==
    digest(concatUint8Array(header.nextCommittee \o <<numberToUint8Array(header.epoch)>>))

\* u.buffer and new Uint8Array(buffer)
BufferOf(u) == <<"ArrayBuffer", u>>
Uint8ArrayOf(b) == b[2]

toOptimisedUpdate(update) ==
    [header |-> [epoch |-> update.header.epoch,
                 nextCommittee |-> [k \in DOMAIN update.header.nextCommittee |->
                                       BufferOf(update.header.nextCommittee[k])]],
     aggregateSignature |-> BufferOf(update.aggregateSignature)]

fromOptimisedUpdate(update) ==
    Update(Header([k \in DOMAIN update.header.nextCommittee |->
                      Uint8ArrayOf(update.header.nextCommittee[k])],
                  update.header.epoch),
           Uint8ArrayOf(update.aggregateSignature))

\* nextCommitteePK + getCommitteeFromPK: the committee generated for period p
nextCommittee(isMalicious, p) ==
    [j \in 1..CommitteeSize |-> PubKey(IF isMalicious THEN 1 ELSE 0, p, j)]

\* committee of period p of a prover with the given dishonesty index
ChainCommittee(dishonestyIndex, p) ==
    IF p = 0 THEN nextCommittee(FALSE, 0)
    ELSE nextCommittee(p - 1 >= dishonestyIndex, p)

\* ChainUpdate with currentCommitteePK advanced before signing
ChainUpdateSignedByNext(dishonestyIndex, e) ==
    LET header == Header(ChainCommittee(dishonestyIndex, e + 1), e)
        aggregateSignature ==
            IF e = dishonestyIndex THEN ZeroSignature
            ELSE AggregateSign(ChainCommittee(dishonestyIndex, e + 1), hashHeader(header))
    IN  toOptimisedUpdate(Update(header, aggregateSignature))

\* the update generated for period i in the constructor's map
ChainUpdate(dishonestyIndex, e) ==
    LET header == Header(ChainCommittee(dishonestyIndex, e + 1), e)
        aggregateSignature ==
            IF e = dishonestyIndex THEN ZeroSignature
            ELSE AggregateSign(ChainCommittee(dishonestyIndex, e), hashHeader(header))
    IN  toOptimisedUpdate(Update(header, aggregateSignature))

\* new DummyStoreProver(honest, size, committeeSize); r is getRandomInt(size)
DummyStoreProver(honest, sz, r) ==
    LET dishonestyIndex == IF honest THEN sz ELSE r
    IN  [honest |-> honest,
         size |-> sz,
         dishonestyIndex |-> dishonestyIndex,
         genesisCommittee |-> ChainCommittee(dishonestyIndex, 0),
         syncUpdatesOptimised |-> [e \in 1..sz |-> ChainUpdate(dishonestyIndex, e - 1)]]

getSyncCommittee(prover, per) ==
    IF per = 0 THEN prover.genesisCommittee
    ELSE LET c == prover.syncUpdatesOptimised[per].header.nextCommittee
         IN  [k \in DOMAIN c |-> Uint8ArrayOf(c[k])]

getSyncUpdate(prover, per) ==
    fromOptimisedUpdate(prover.syncUpdatesOptimised[per + 1])

\* a verifier whose genesis committee comes from another seed
getGenesisSyncCommitteeOtherSeed == nextCommittee(TRUE, 0)

\* DummyStoreVerifier.getGenesisSyncCommittee (same seed as the honest prover)
getGenesisSyncCommittee == nextCommittee(FALSE, 0)

\* currentCommittee.every((c, i) => isUint8ArrayEq(c, update.header.nextCommittee[i]))
\* an index past the end of nextCommittee reads undefined, equal to no key
isCurrentCommitteeSameEvery(currentCommittee, next) ==
    \A k \in 1..Len(currentCommittee) :
        k <= Len(next) /\ isUint8ArrayEq(currentCommittee[k], next[k])

\* DummyStoreVerifier.syncUpdateVerify: "true", "false" or "throw"
syncUpdateVerify(prev, currentCommittee, update) ==
    LET readable == update.present /\ update.header.present /\ update.header.hasNext
    IN  IF Len(currentCommittee) > 0 /\ ~readable THEN "throw"
        ELSE IF ~isCurrentCommitteeSameEvery(currentCommittee, update.header.nextCommittee)
        THEN "false"
        ELSE IF ~readable THEN "throw"
        ELSE IF \E k \in 1..Len(prev) : ~IsPublicKey(prev[k])
        THEN "throw"
        ELSE IF ~SignatureParses(update.aggregateSignature) THEN "false"
        ELSE IF verifyAggregate(update.aggregateSignature, prev,
                                hashHeader(update.header))
        THEN "true" ELSE "false"

(***************************************************************************)
(* utils, merkle-tree, merkle-mountain-range (verifier side)               *)
(***************************************************************************)
RECURSIVE Pow(_, _)
Pow(b, e) == IF e = 0 THEN 1 ELSE b * Pow(b, e - 1)

\* logFloor(x, b): the largest k with b^k <= x
RECURSIVE logFloor(_, _)
logFloor(x, b) == IF x < b THEN 0 ELSE 1 + logFloor(x \div b, b)

isCommitteeSame(a, b) == a = b

\* the children of position pos put back among its n-1 siblings
WithChild(siblings, pos, value) ==
    SubSeq(siblings, 1, pos) \o <<value>> \o SubSeq(siblings, pos + 1, Len(siblings))

\* MerkleVerify.verify(leaf, index, root, proof)
RECURSIVE MerklePath(_, _, _, _)
MerklePath(value, idx, proof, level) ==
    IF level > Len(proof) THEN value
    ELSE LET pos == (idx \div Pow(N, level - 1)) % N
         IN  MerklePath(digest(concatUint8Array(WithChild(proof[level], pos, value))),
                        idx, proof, level + 1)

MerkleVerify(leaf, idx, root, proof) ==
    /\ \A l \in 1..Len(proof) : Len(proof[l]) = N - 1
    /\ isUint8ArrayEq(MerklePath(leaf, idx, proof, 1), root)

\* the peak sizes of an MMR of leafCount leaves: the base-n digits, largest first
RECURSIVE PeakSizes(_)
PeakSizes(leafCount) ==
    IF leafCount = 0 THEN <<>>
    ELSE LET s == Pow(N, logFloor(leafCount, N))
         IN  <<s>> \o PeakSizes(leafCount - s)

RECURSIVE bagPeaks(_)
bagPeaks(peaks) ==
    IF Len(peaks) = 1 THEN peaks[1].rootHash
    ELSE digest(concatUint8Array(<<peaks[1].rootHash, bagPeaks(Tail(peaks))>>))

\* MerkleMountainVerify.verify(root, peaks, leafCount)
MMRVerify(root, peaks, leafCount) ==
    /\ Len(peaks) > 0
    /\ [k \in 1..Len(peaks) |-> peaks[k].size] = PeakSizes(leafCount)
    /\ isUint8ArrayEq(root, bagPeaks(peaks))

\* peaksVsPeaks' offset: the leaves of the first k peaks
RECURSIVE PeakOffset(_, _)
PeakOffset(peaks, k) ==
    IF k = 0 THEN 0 ELSE peaks[k].size + PeakOffset(peaks, k - 1)

\* MerkleMountainVerify.getPeakAndIndex(peaks, index)
RECURSIVE getPeakAndIndex(_, _)
getPeakAndIndex(peaks, idx) ==
    IF idx < peaks[1].size \/ Len(peaks) = 1
    THEN [peak |-> peaks[1], index |-> idx]
    ELSE getPeakAndIndex(Tail(peaks), idx - peaks[1].size)

(***************************************************************************)
(* Provers (IProver).  An honest prover commits to the chain of the seeded *)
(* generator and answers every query from it.  An adversarial prover       *)
(* commits to any chain of ChainsOf and picks each answer freely among the *)
(* answers below; it holds the secret keys of the committees it generated  *)
(* itself and none of the seeded ones.                                     *)
(***************************************************************************)
\* the committee a chain holds at period p: "T" the seeded committee, "A" and
\* "B" two committees of fresh keys, "P" the seeded committee without its last key
LeafCommittee(tag, p) ==
    CASE tag = "T" -> nextCommittee(FALSE, p)
      [] tag = "A" -> nextCommittee(TRUE, p)
      [] tag = "B" -> [j \in 1..CommitteeSize |-> PubKey(2, p, j)]
      [] tag = "P" -> SubSeq(nextCommittee(FALSE, p), 1, CommitteeSize - 1)

HonestChain(len) == [p \in 1..len |-> "T"]

\* seeded up to period d - 1, k[1] at period d, k[2] afterwards
ForkAt(len, d, k) ==
    [p \in 1..len |-> IF p - 1 < d THEN "T" ELSE IF p - 1 = d THEN k[1] ELSE k[2]]

ForkKinds == {<<"A", "A">>, <<"P", "A">>, <<"A", "B">>}

ChainsOf(len) ==
    {HonestChain(len)} \cup {ForkAt(len, d, k) : d \in 0..(len - 1), k \in ForkKinds}

LeafHashes(chain) ==
    [p \in 1..Len(chain) |-> digest(concatUint8Array(LeafCommittee(chain[p], p - 1)))]

\* root of the perfect n-ary tree over the leaf hashes
RECURSIVE TreeRoot(_)
TreeRoot(leaves) ==
    IF Len(leaves) = 1 THEN leaves[1]
    ELSE LET w == Len(leaves) \div N
         IN  digest(concatUint8Array(
                 [k \in 1..N |-> TreeRoot(SubSeq(leaves, (k - 1) * w + 1, k * w))]))

RECURSIVE PeaksOf(_, _)
PeaksOf(leaves, sizes) ==
    IF Len(sizes) = 0 THEN <<>>
    ELSE <<[rootHash |-> TreeRoot(SubSeq(leaves, 1, sizes[1])), size |-> sizes[1]]>>
         \o PeaksOf(SubSeq(leaves, sizes[1] + 1, Len(leaves)), Tail(sizes))

\* getMMRInfo() of a prover that holds this chain
MMRInfoOf(chain) ==
    LET peaks == PeaksOf(LeafHashes(chain), PeakSizes(Len(chain)))
    IN  [rootHash |-> bagPeaks(peaks), peaks |-> peaks]

JunkDigest == <<JunkAtom, JunkAtom>>

\* the answers to getMMRInfo(): a chain of the right length, one whose root is
\* not the bagging of its peaks, or one that is a period ahead
MMRResponsesOf(kind, leafCount) ==
    IF kind = "honest" THEN {MMRInfoOf(HonestChain(leafCount))}
    ELSE {MMRInfoOf(c) : c \in ChainsOf(leafCount)}
         \cup {[rootHash |-> JunkDigest, peaks |-> MMRInfoOf(HonestChain(leafCount)).peaks],
               MMRInfoOf(HonestChain(leafCount + 1))}

\* the MMR sizes of the runs, and the answers to getMMRInfo() for each of them
MMRSizes == (1..(MaxSize + 1)) \cup {N, Pow(N, DeepDepth), Pow(N, LiveDepth)}

MMRResponsesTable ==
    [kind \in {"honest", "adversary"}, leafCount \in MMRSizes |->
        MMRResponsesOf(kind, leafCount)] @@ <<>>

MMRResponses(kind, leafCount) == MMRResponsesTable[kind, leafCount]

\* bytes cut into n pieces of equal width (the last one takes the rest)
ChunkN(bytes) ==
    LET w == Len(bytes) \div N
    IN  [k \in 1..N |-> SubSeq(bytes, (k - 1) * w + 1, IF k = N THEN Len(bytes) ELSE k * w)]

\* the same bytes with the first cut moved one atom to the left
Resplit(bytes) ==
    LET w == Len(bytes) \div N
    IN  [k \in 1..N |->
            SubSeq(bytes, IF k = 1 THEN 1 ELSE (k - 1) * w,
                          IF k = N THEN Len(bytes) ELSE k * w - 1)]

NoChildren == [hasChildren |-> FALSE, children |-> <<>>, how |-> "missing"]
Children(c, how) == [hasChildren |-> TRUE, children |-> c, how |-> how]

\* the answers to getNode(treeRoot, nodeHash)
NodeResponses(kind, nodeHash) ==
    LET good == IF IsDigest(nodeHash)
                THEN {Children(ChunkN(Preimage(nodeHash)), "good")} ELSE {}
    IN  IF kind = "honest" THEN good
        ELSE good
             \cup (IF IsDigest(nodeHash) /\ Len(Preimage(nodeHash)) >= 2 * N
                   THEN {Children(Resplit(Preimage(nodeHash)), "resplit")} ELSE {})
             \cup (IF IsDigest(nodeHash)
                   THEN {Children(<<Preimage(nodeHash)>>, "badLength")} ELSE {})
             \cup {Children([k \in 1..N |-> JunkDigest], "badHash"), NoChildren}

\* the leaf of local index idx below node, with its proof (leaf level first)
RECURSIVE OpenLeaf(_, _, _)
OpenLeaf(node, depth, idx) ==
    IF depth = 0 THEN [leaf |-> node, proof |-> <<>>]
    ELSE LET kids == ChunkN(Preimage(node))
             pos == idx \div Pow(N, depth - 1)
             sub == OpenLeaf(kids[pos + 1], depth - 1, idx % Pow(N, depth - 1))
         IN  [leaf |-> sub.leaf,
              proof |-> Append(sub.proof,
                               SubSeq(kids, 1, pos) \o SubSeq(kids, pos + 2, N))]

\* bytes cut into keys
KeysOf(bytes) == [j \in 1..Len(bytes) |-> <<bytes[j]>>]

Latest == -1

\* the peak and local index of a period in the prover's own MMR
OwnLeaf(peaks, per) ==
    LET at == IF per = Latest
              THEN [peak |-> peaks[Len(peaks)], index |-> peaks[Len(peaks)].size - 1]
              ELSE getPeakAndIndex(peaks, per)
    IN  OpenLeaf(at.peak.rootHash, logFloor(at.peak.size, N), at.index)

LeafResponse(committee, rootHash, proof, how) ==
    [syncCommittee |-> committee, rootHash |-> rootHash, proof |-> proof, how |-> how]

\* the root of the tree that holds the leaf of a period
OwnRoot(peaks, per) ==
    IF per = Latest THEN peaks[Len(peaks)].rootHash
    ELSE getPeakAndIndex(peaks, per).peak.rootHash

\* the answers to getLeafWithProof(period) of a prover that committed to peaks
LeafResponsesOf(kind, peaks, per) ==
    LET own == OwnLeaf(peaks, per)
        root == OwnRoot(peaks, per)
        good == LeafResponse(KeysOf(Preimage(own.leaf)), root, own.proof, "good")
    IN  IF kind = "honest" THEN {good}
        ELSE {good,
              \* the committed bytes cut into keys differently
              LeafResponse(<<Preimage(own.leaf)>>, root, own.proof, "resplit"),
              \* a committee that is not the committed one
              LeafResponse(<<<<JunkAtom>>>>, root, own.proof, "badProof"),
              \* the committed leaf under a root hash that is not the audited one
              LeafResponse(KeysOf(Preimage(own.leaf)), digest(<<JunkAtom>>),
                           own.proof, "badRoot")}

HonestUpdate(per) == fromOptimisedUpdate(ChainUpdate(per + 1, per))

HoldsSecretKeys(committee) ==
    \A j \in 1..Len(committee) :
        IsPublicKey(committee[j]) /\ committee[j][1][2][1] > 0

\* the answers to getSyncUpdate(period, 1) of a prover that committed to peaks
UpdateResponsesOf(kind, peaks, per) ==
    LET prev == KeysOf(Preimage(OwnLeaf(peaks, per).leaf))
        next == KeysOf(Preimage(OwnLeaf(peaks, per + 1).leaf))
        header == Header(next, per)
    IN  IF kind = "honest" THEN {HonestUpdate(per)}
        ELSE {HonestUpdate(per), Update(header, ZeroSignature), NoUpdate}
             \cup (IF HoldsSecretKeys(prev)
                   THEN {Update(header, AggregateSign(prev, hashHeader(header)))}
                   ELSE {})

\* the peaks a prover can commit to
CommittedPeaks ==
    {mmrInfo.peaks : mmrInfo \in UNION {MMRResponsesOf("adversary", leafCount) :
                                          leafCount \in MMRSizes}}

\* the answers to getLeafWithProof, tabulated for every prover, every peaks it
\* can have committed to and every period of them
LeafQueries ==
    UNION {{<<kind, peaks, per>> : kind \in {"honest", "adversary"},
                                   per \in {Latest} \cup (0..(PeakOffset(peaks, Len(peaks)) - 1))} :
           peaks \in CommittedPeaks}

LeafResponsesTable ==
    [q \in LeafQueries |->
        LeafResponsesOf(q[1], q[2], q[3])] @@ <<>>

LeafResponses(kind, peaks, per) == LeafResponsesTable[<<kind, peaks, per>>]

\* the answers to getSyncUpdate, tabulated in the same way
UpdateResponsesTable ==
    [q \in {lq \in LeafQueries : lq[3] >= 0 /\ lq[3] + 1 < PeakOffset(lq[2], Len(lq[2]))} |->
        UpdateResponsesOf(q[1], q[2], q[3])] @@ <<>>

UpdateResponses(kind, peaks, per) == UpdateResponsesTable[<<kind, peaks, per>>]

(***************************************************************************)
(* SuperlightClient (prover/iprover.ts)                                    *)
(***************************************************************************)
NoProverInfo ==
    [defined |-> FALSE, root |-> <<>>, peaks |-> <<>>, index |-> -1,
     hasSyncCommittee |-> FALSE, syncCommittee |-> <<>>]
\* a record that takes its index from its place among the survivors
ProverInfoAtPlace(root, peaks, idx) ==
    [defined |-> TRUE, root |-> root, peaks |-> peaks, index |-> Len(validProverInfos),
     hasSyncCommittee |-> FALSE, syncCommittee |-> <<>>]
ProverInfo(root, peaks, idx) ==
    [defined |-> TRUE, root |-> root, peaks |-> peaks, index |-> idx,
     hasSyncCommittee |-> FALSE, syncCommittee |-> <<>>]

NoResult == [kind |-> "none", error |-> "", records |-> <<>>]
Returned(records) == [kind |-> "ok", error |-> "", records |-> records]
Thrown(msg) == [kind |-> "error", error |-> msg, records |-> <<>>]

NoQueries == [getNode1 |-> 0, getNode2 |-> 0, getLeaf |-> 0, getUpdate |-> 0]
NoLast == [op |-> "none", prover |-> -1, how |-> "none", verdict |-> "none", adj |-> "none"]
Last(op, prover, how, verdict) ==
    [op |-> op, prover |-> prover, how |-> how, verdict |-> verdict, adj |-> "none"]

mmrSize == size + 1

\* the two sides of the current game
currWinner == winners[1]
currProver == validProverInfos[ti + 1]
prover1 == provers[currWinner.index + 1]
prover2 == provers[currProver.index + 1]

\* the two roots compared as objects: two arrays are never the same object
isSameRootObject == FALSE

\* the two roots compared by their length only
isSameRootByLength == Len(currWinner.root) = Len(currProver.root)

\* tournament, line 251: the challenger presents the root of the winners
isSameRoot == isUint8ArrayEq(currWinner.root, currProver.root)

NoGame ==
    /\ peak' = -1 /\ offset' = 0 /\ stepsToLeafs' = 0
    /\ node1' = <<>> /\ node2' = <<>> /\ index' = 0 /\ nodeInfo1' = NoChildren
    /\ period' = 0 /\ committee1' = <<>> /\ committee2' = <<>>
    /\ prevCommittee' = <<>> /\ is1Correct' = FALSE

\* getVerifiedSyncCommittee without its Merkle check
VerifiedSyncCommitteeUnchecked(response, verifiedPeaks, per) ==
    [ok |-> TRUE, syncCommittee |-> response.syncCommittee]

\* getVerifiedSyncCommittee verifying under the root hash of the answer
VerifiedSyncCommitteeByResponseRoot(response, verifiedPeaks, per) ==
    LET lastPeak == verifiedPeaks[Len(verifiedPeaks)]
        at == IF per = Latest
              THEN [peak |-> lastPeak, index |-> lastPeak.size - 1]
              ELSE getPeakAndIndex(verifiedPeaks, per)
        leafHash == digest(concatUint8Array(response.syncCommittee))
    IN  [ok |-> MerkleVerify(leafHash, at.index, response.rootHash, response.proof),
         syncCommittee |-> response.syncCommittee]

\* getVerifiedSyncCommittee on an answer: the committee, or "false"
VerifiedSyncCommittee(response, verifiedPeaks, per) ==
    LET lastPeak == verifiedPeaks[Len(verifiedPeaks)]
        at == IF per = Latest
              THEN [peak |-> lastPeak, index |-> lastPeak.size - 1]
              ELSE getPeakAndIndex(verifiedPeaks, per)
        leafHash == digest(concatUint8Array(response.syncCommittee))
    IN  [ok |-> MerkleVerify(leafHash, at.index, at.peak.rootHash, response.proof),
         syncCommittee |-> response.syncCommittee]

\* the adjudication with its last branch returning false instead of throwing
AdjudicateNoThrow(a, b) ==
    IF a /\ ~b THEN "true" ELSE "false"

\* the adjudication that lets the current winner stand when neither side verifies
AdjudicateFavoursWinner(a, b) ==
    IF a /\ ~b THEN "true"
    ELSE IF b /\ ~a THEN "false"
    ELSE IF ~b /\ ~a THEN "true"
    ELSE "throw"

\* checkNodeAndPrevUpdate, lines 136-143
Adjudicate(a, b) ==
    IF a /\ ~b THEN "true"
    ELSE IF b /\ ~a THEN "false"
    ELSE IF ~b /\ ~a THEN "false"
    ELSE "throw"

\* treeVsTree that follows the last child that differs instead of the first
treeVsTreeStepLastChild(info1, info2, n1, n2) ==
    LET children1 == info1.children
        children2 == info2.children
        differ == {k \in 1..N : ~isUint8ArrayEq(children1[k], children2[k])}
    IN  IF ~info1.hasChildren THEN [kind |-> "throw", error |-> "TypeError", child |-> 0]
        ELSE IF Len(children1) # N
                \/ ~isUint8ArrayEq(digest(concatUint8Array(children1)), n1)
        THEN [kind |-> "false", error |-> "", child |-> 0]
        ELSE IF ~info2.hasChildren THEN [kind |-> "throw", error |-> "TypeError", child |-> 0]
        ELSE IF Len(children2) # N
                \/ ~isUint8ArrayEq(digest(concatUint8Array(children2)), n2)
        THEN [kind |-> "true", error |-> "", child |-> 0]
        ELSE IF differ # {}
        THEN [kind |-> "recurse", error |-> "",
              child |-> (CHOOSE k \in differ : \A m \in differ : k >= m) - 1]
        ELSE [kind |-> "throw", error |-> "all the children can not be same", child |-> 0]

\* treeVsTree, lines 164-197, on the two answers of one level
treeVsTreeStep(info1, info2, n1, n2) ==
    LET children1 == info1.children
        children2 == info2.children
        differ == {k \in 1..N : ~isUint8ArrayEq(children1[k], children2[k])}
    IN  IF ~info1.hasChildren THEN [kind |-> "throw", error |-> "TypeError", child |-> 0]
        ELSE IF Len(children1) # N
                \/ ~isUint8ArrayEq(digest(concatUint8Array(children1)), n1)
        THEN [kind |-> "false", error |-> "", child |-> 0]
        ELSE IF ~info2.hasChildren THEN [kind |-> "throw", error |-> "TypeError", child |-> 0]
        ELSE IF Len(children2) # N
                \/ ~isUint8ArrayEq(digest(concatUint8Array(children2)), n2)
        THEN [kind |-> "true", error |-> "", child |-> 0]
        ELSE IF differ # {}
        THEN [kind |-> "recurse", error |-> "",
              child |-> (CHOOSE k \in differ : \A m \in differ : k <= m) - 1]
        ELSE [kind |-> "throw", error |-> "all the children can not be same", child |-> 0]

\* the recursive call with the depth passed on unchanged
SameStepsToLeafs(steps) == steps

\* treeVsTree's depth argument of the recursive call, line 189
NextStepsToLeafs(steps) == steps - 1

\* the entry of treeVsTree with the leaf index taken for the period
DescendWithoutOffset(off, steps, n1, n2, idx) ==
    /\ stepsToLeafs' = steps
    /\ index' = idx
    /\ nodeInfo1' = NoChildren
    /\ committee1' = <<>> /\ committee2' = <<>>
    /\ prevCommittee' = <<>> /\ is1Correct' = FALSE
    /\ IF steps = 0
       THEN /\ pc' = "getLeaf1"
            /\ period' = idx
            /\ node1' = <<>> /\ node2' = <<>>
       ELSE /\ pc' = "getNode1"
            /\ period' = 0
            /\ node1' = n1 /\ node2' = n2

\* treeVsTree is entered with these arguments: it returns index at a leaf, and
\* peaksVsPeaks goes on to checkNodeAndPrevUpdate (lines 160-162, 231-237)
Descend(off, steps, n1, n2, idx) ==
    /\ stepsToLeafs' = steps
    /\ index' = idx
    /\ nodeInfo1' = NoChildren
    /\ committee1' = <<>> /\ committee2' = <<>>
    /\ prevCommittee' = <<>> /\ is1Correct' = FALSE
    /\ IF steps = 0
       THEN /\ pc' = "getLeaf1"
            /\ period' = idx + off
            /\ node1' = <<>> /\ node2' = <<>>
       ELSE /\ pc' = "getNode1"
            /\ period' = 0
            /\ node1' = n1 /\ node2' = n2

\* an error leaves sync()
Abort(msg) ==
    /\ result' = Thrown(msg)
    /\ pc' = "done"
    /\ NoGame
    /\ UNCHANGED <<i, validProverInfos, winners, ti, wi>>

\* the end of a game that adds the challenger to the winners it defeated
EndGameKeepsPool(areCurrentWinnersHonest) ==
    /\ winners' = IF areCurrentWinnersHonest THEN winners ELSE Append(winners, currProver)
    /\ ti' = ti + 1
    /\ pc' = "tournament"
    /\ NoGame
    /\ UNCHANGED <<i, validProverInfos, wi, result>>

\* the end of a game after which the loop takes up the same challenger again
EndGameSameChallenger(areCurrentWinnersHonest) ==
    /\ winners' = IF areCurrentWinnersHonest THEN winners ELSE <<currProver>>
    /\ ti' = ti
    /\ pc' = "tournament"
    /\ NoGame
    /\ UNCHANGED <<i, validProverInfos, wi, result>>

\* peaksVsPeaks returned areCurrentWinnersHonest to tournament, lines 268-275
EndGame(areCurrentWinnersHonest) ==
    /\ winners' = IF areCurrentWinnersHonest THEN winners ELSE <<currProver>>
    /\ ti' = ti + 1
    /\ pc' = "tournament"
    /\ NoGame
    /\ UNCHANGED <<i, validProverInfos, wi, result>>

Settle(verdict) ==
    IF verdict = "throw" THEN Abort("both updates can not be correct at the same time")
    ELSE EndGame(verdict = "true")

AdjOf(a, b) == (IF a THEN "T" ELSE "F") \o (IF b THEN "T" ELSE "F")

(***************************************************************************)
(* Actions: one per await of sync()                                        *)
(***************************************************************************)
\* sync, lines 292-310: one prover of the audit loop
Audit ==
    /\ pc = "audit" /\ i < Len(provers)
    /\ \E mmrInfo \in MMRResponses(provers[i + 1], mmrSize) :
         LET isMMRCorrect == MMRVerify(mmrInfo.rootHash, mmrInfo.peaks, mmrSize)
         IN  /\ validProverInfos' =
                   IF isMMRCorrect
                   THEN Append(validProverInfos,
                               ProverInfo(mmrInfo.rootHash, mmrInfo.peaks, i))
                   ELSE validProverInfos
             /\ last' = Last("getMMRInfo", i,
                             IF isMMRCorrect THEN "good" ELSE "badMMR", "none")
    /\ i' = i + 1
    /\ UNCHANGED <<pc, winners, ti, wi, result, queries, games>>
    /\ UNCHANGED <<worldVars, gameVars, storeVars>>

\* sync line 312, tournament line 246
BeginTournament ==
    /\ pc = "audit" /\ i = Len(provers)
    /\ winners' = <<IF Len(validProverInfos) > 0 THEN validProverInfos[1]
                    ELSE NoProverInfo>>
    /\ ti' = 1
    /\ pc' = "tournament"
    /\ last' = NoLast
    /\ UNCHANGED <<i, validProverInfos, wi, result, queries, games>>
    /\ UNCHANGED <<worldVars, gameVars, storeVars>>

\* tournament, lines 247-257: same root as the current winners
TournamentPool ==
    /\ pc = "tournament" /\ ti < Len(validProverInfos)
    /\ isSameRoot
    /\ winners' = Append(winners, currProver)
    /\ ti' = ti + 1
    /\ last' = NoLast
    /\ UNCHANGED <<pc, i, validProverInfos, wi, result, queries, games>>
    /\ UNCHANGED <<worldVars, gameVars, storeVars>>

\* tournament, lines 258-267, and peaksVsPeaks, lines 207-227
TournamentPlay ==
    /\ pc = "tournament" /\ ti < Len(validProverInfos)
    /\ ~isSameRoot
    /\ games' = games + 1
    /\ queries' = NoQueries
    /\ last' = NoLast
    /\ LET peaks1 == currWinner.peaks
           peaks2 == currProver.peaks
           differ == {k \in 1..Len(peaks1) :
                         ~isUint8ArrayEq(peaks1[k].rootHash, peaks2[k].rootHash)}
       IN  IF Len(peaks1) # Len(peaks2)
           THEN Abort("there should be equal number of peaks")
           ELSE IF differ = {} THEN Abort("all peaks should not be same")
           ELSE LET k == CHOOSE k \in differ : \A m \in differ : k <= m
                    off == PeakOffset(peaks1, k - 1)
                IN  /\ peak' = k - 1
                    /\ offset' = off
                    /\ Descend(off, logFloor(peaks1[k].size, N),
                               peaks1[k].rootHash, peaks2[k].rootHash, 0)
                    /\ UNCHANGED <<i, validProverInfos, winners, ti, wi, result>>
    /\ UNCHANGED <<worldVars, storeVars>>

\* treeVsTree, line 165
GetNode1 ==
    /\ pc = "getNode1"
    /\ \E nodeInfo \in NodeResponses(prover1, node1) :
         /\ nodeInfo1' = nodeInfo
         /\ last' = Last("getNode", currWinner.index, nodeInfo.how, "none")
    /\ pc' = "getNode2"
    /\ queries' = [queries EXCEPT !.getNode1 = @ + 1]
    /\ UNCHANGED <<i, validProverInfos, winners, ti, wi, result, games>>
    /\ UNCHANGED <<peak, offset, stepsToLeafs, node1, node2, index,
                   period, committee1, committee2, prevCommittee, is1Correct>>
    /\ UNCHANGED <<worldVars, storeVars>>

\* treeVsTree, lines 166-197
GetNode2 ==
    /\ pc = "getNode2"
    /\ queries' = [queries EXCEPT !.getNode2 = @ + 1]
    /\ games' = games
    /\ \E nodeInfo2 \in NodeResponses(prover2, node2) :
         LET step == treeVsTreeStep(nodeInfo1, nodeInfo2, node1, node2)
             blamed == IF step.kind = "false" \/ ~nodeInfo1.hasChildren
                       THEN Last("getNode", currWinner.index, nodeInfo1.how, step.kind)
                       ELSE Last("getNode", currProver.index, nodeInfo2.how, step.kind)
         IN  /\ last' = blamed
             /\ CASE step.kind = "throw" -> Abort(step.error)
                  [] step.kind = "true" -> EndGame(TRUE)
                  [] step.kind = "false" -> EndGame(FALSE)
                  [] step.kind = "recurse" ->
                       /\ Descend(offset, NextStepsToLeafs(stepsToLeafs),
                                  nodeInfo1.children[step.child + 1],
                                  nodeInfo2.children[step.child + 1],
                                  index * N + step.child)
                       /\ UNCHANGED <<peak, offset>>
                       /\ UNCHANGED <<i, validProverInfos, winners, ti, wi, result>>
    /\ UNCHANGED <<worldVars, storeVars>>

\* checkNodeAndPrevUpdate, lines 86-91
GetLeaf1 ==
    /\ pc = "getLeaf1"
    /\ queries' = [queries EXCEPT !.getLeaf = @ + 1]
    /\ games' = games
    /\ \E response \in LeafResponses(prover1, currWinner.peaks, period) :
         LET v == VerifiedSyncCommittee(response, currWinner.peaks, period)
         IN  IF ~v.ok
             THEN /\ last' = Last("getLeaf", currWinner.index, response.how, "false")
                  /\ EndGame(FALSE)
             ELSE /\ last' = Last("getLeaf", currWinner.index, response.how, "none")
                  /\ committee1' = v.syncCommittee
                  /\ pc' = "getLeaf2"
                  /\ UNCHANGED <<i, validProverInfos, winners, ti, wi, result>>
                  /\ UNCHANGED <<peak, offset, stepsToLeafs, node1, node2, index,
                                 nodeInfo1, period, committee2, prevCommittee,
                                 is1Correct>>
    /\ UNCHANGED <<worldVars, storeVars>>

\* checkNodeAndPrevUpdate, lines 93-107 (and 136-143 when period is 0)
GetLeaf2 ==
    /\ pc = "getLeaf2"
    /\ queries' = [queries EXCEPT !.getLeaf = @ + 1]
    /\ games' = games
    /\ \E response \in LeafResponses(prover2, currProver.peaks, period) :
         LET v == VerifiedSyncCommittee(response, currProver.peaks, period)
             genesisCommittee == getGenesisSyncCommittee
             a == isCommitteeSame(genesisCommittee, committee1)
             b == isCommitteeSame(genesisCommittee, v.syncCommittee)
         IN  IF ~v.ok
             THEN /\ last' = Last("getLeaf", currProver.index, response.how, "true")
                  /\ EndGame(TRUE)
             ELSE IF period = 0
             THEN /\ last' = [Last("getLeaf", currProver.index, response.how,
                                   Adjudicate(a, b)) EXCEPT !.adj = AdjOf(a, b)]
                  /\ Settle(Adjudicate(a, b))
             ELSE /\ last' = Last("getLeaf", currProver.index, response.how, "none")
                  /\ committee2' = v.syncCommittee
                  /\ pc' = "getPrevLeaf"
                  /\ UNCHANGED <<i, validProverInfos, winners, ti, wi, result>>
                  /\ UNCHANGED <<peak, offset, stepsToLeafs, node1, node2, index,
                                 nodeInfo1, period, committee1, prevCommittee,
                                 is1Correct>>
    /\ UNCHANGED <<worldVars, storeVars>>

\* the previous committee asked from the challenger instead of the winner
GetPrevLeafFromChallenger ==
    /\ pc = "getPrevLeaf"
    /\ queries' = [queries EXCEPT !.getLeaf = @ + 1]
    /\ games' = games
    /\ \E response \in LeafResponses(prover2, currProver.peaks, period - 1) :
         LET v == VerifiedSyncCommittee(response, currProver.peaks, period - 1)
         IN  IF ~v.ok
             THEN /\ last' = Last("getPrevLeaf", currProver.index, response.how, "false")
                  /\ EndGame(FALSE)
             ELSE /\ last' = Last("getPrevLeaf", currProver.index, response.how, "none")
                  /\ prevCommittee' = v.syncCommittee
                  /\ pc' = "getUpdate1"
                  /\ UNCHANGED <<i, validProverInfos, winners, ti, wi, result>>
                  /\ UNCHANGED <<peak, offset, stepsToLeafs, node1, node2, index,
                                 nodeInfo1, period, committee1, committee2,
                                 is1Correct>>
    /\ UNCHANGED <<worldVars, storeVars>>

\* checkNodeAndPrevUpdate, lines 109-117
GetPrevLeaf ==
    /\ pc = "getPrevLeaf"
    /\ queries' = [queries EXCEPT !.getLeaf = @ + 1]
    /\ games' = games
    /\ \E response \in LeafResponses(prover1, currWinner.peaks, period - 1) :
         LET v == VerifiedSyncCommittee(response, currWinner.peaks, period - 1)
         IN  IF ~v.ok
             THEN /\ last' = Last("getPrevLeaf", currWinner.index, response.how, "false")
                  /\ EndGame(FALSE)
             ELSE /\ last' = Last("getPrevLeaf", currWinner.index, response.how, "none")
                  /\ prevCommittee' = v.syncCommittee
                  /\ pc' = "getUpdate1"
                  /\ UNCHANGED <<i, validProverInfos, winners, ti, wi, result>>
                  /\ UNCHANGED <<peak, offset, stepsToLeafs, node1, node2, index,
                                 nodeInfo1, period, committee1, committee2,
                                 is1Correct>>
    /\ UNCHANGED <<worldVars, storeVars>>

UpdateHow(update) ==
    IF ~update.present THEN "missing"
    ELSE IF ~SignatureParses(update.aggregateSignature) THEN "badSignature"
    ELSE "signed"

\* checkNodeAndPrevUpdate, lines 121-126
GetUpdate1 ==
    /\ pc = "getUpdate1"
    /\ queries' = [queries EXCEPT !.getUpdate = @ + 1]
    /\ games' = games
    /\ \E update1 \in UpdateResponses(prover1, currWinner.peaks, period - 1) :
         LET r == syncUpdateVerify(prevCommittee, committee1, update1)
         IN  IF r = "throw"
             THEN /\ last' = Last("getUpdate", currWinner.index, UpdateHow(update1), "throw")
                  /\ Abort("TypeError")
             ELSE /\ last' = Last("getUpdate", currWinner.index, UpdateHow(update1), "none")
                  /\ is1Correct' = (r = "true")
                  /\ pc' = "getUpdate2"
                  /\ UNCHANGED <<i, validProverInfos, winners, ti, wi, result>>
                  /\ UNCHANGED <<peak, offset, stepsToLeafs, node1, node2, index,
                                 nodeInfo1, period, committee1, committee2,
                                 prevCommittee>>
    /\ UNCHANGED <<worldVars, storeVars>>

\* checkNodeAndPrevUpdate, lines 128-143
GetUpdate2 ==
    /\ pc = "getUpdate2"
    /\ queries' = [queries EXCEPT !.getUpdate = @ + 1]
    /\ games' = games
    /\ \E update2 \in UpdateResponses(prover2, currProver.peaks, period - 1) :
         LET r == syncUpdateVerify(prevCommittee, committee2, update2)
             is2Correct == (r = "true")
         IN  IF r = "throw"
             THEN /\ last' = Last("getUpdate", currProver.index, UpdateHow(update2), "throw")
                  /\ Abort("TypeError")
             ELSE /\ last' = [Last("getUpdate", currProver.index, UpdateHow(update2),
                                   Adjudicate(is1Correct, is2Correct))
                              EXCEPT !.adj = AdjOf(is1Correct, is2Correct)]
                  /\ Settle(Adjudicate(is1Correct, is2Correct))
    /\ UNCHANGED <<worldVars, storeVars>>

\* tournament line 277, sync line 314
EndTournament ==
    /\ pc = "tournament" /\ ti >= Len(validProverInfos)
    /\ pc' = "final"
    /\ wi' = 0
    /\ last' = NoLast
    /\ UNCHANGED <<i, validProverInfos, winners, ti, result, queries, games>>
    /\ UNCHANGED <<worldVars, gameVars, storeVars>>

\* sync, lines 314-328: one winner of the final loop
FinalLeaf ==
    /\ pc = "final" /\ wi < Len(winners) /\ winners[wi + 1].defined
    /\ LET winner == winners[wi + 1]
       IN  \E response \in LeafResponses(provers[winner.index + 1], winner.peaks, Latest) :
             LET v == VerifiedSyncCommittee(response, winner.peaks, Latest)
             IN  /\ last' = Last("getLatest", winner.index, response.how,
                                 IF v.ok THEN "true" ELSE "false")
                 /\ IF v.ok
                    THEN /\ result' = Returned(<<[winner EXCEPT
                                                   !.hasSyncCommittee = TRUE,
                                                   !.syncCommittee = v.syncCommittee]>>)
                         /\ pc' = "done"
                         /\ wi' = wi
                    ELSE /\ wi' = wi + 1
                         /\ UNCHANGED <<pc, result>>
    /\ UNCHANGED <<i, validProverInfos, winners, ti, queries, games>>
    /\ UNCHANGED <<worldVars, gameVars, storeVars>>

\* sync, line 316 when tournament returned [undefined]: winner.index throws
FinalNoSurvivor ==
    /\ pc = "final" /\ wi < Len(winners) /\ ~winners[wi + 1].defined
    /\ result' = Thrown("TypeError")
    /\ pc' = "done"
    /\ last' = NoLast
    /\ UNCHANGED <<i, validProverInfos, winners, ti, wi, queries, games>>
    /\ UNCHANGED <<worldVars, gameVars, storeVars>>

\* sync, line 329
FinalFail ==
    /\ pc = "final" /\ wi = Len(winners)
    /\ result' = Thrown("all winners cheated")
    /\ pc' = "done"
    /\ last' = NoLast
    /\ UNCHANGED <<i, validProverInfos, winners, ti, wi, queries, games>>
    /\ UNCHANGED <<worldVars, gameVars, storeVars>>

(***************************************************************************)
(* VerifiedProvider (rpc-proxy/verifiedProvider.ts).  The chain is the     *)
(* canonical one below the trusted block; the RPC node is not trusted: it  *)
(* answers getBlock with the header asked for or with another one, and     *)
(* getProof / getCode with the proven account or with other fields, code   *)
(* or storage values next to a proof of the true ones.                     *)
(***************************************************************************)
LatestBlock == -1

BlockHash(h) == <<"block", h>>
NoHash == <<"none", 0>>
StateRoot(h) == <<"state", h>>
NoBlockHeader == [number |-> -1, parentHash |-> NoHash, stateRoot |-> NoHash]

\* the header of the canonical block of a number
Canonical(h) ==
    [number |-> h, parentHash |-> BlockHash(h - 1), stateRoot |-> StateRoot(h)]

\* header.hash(): collision resistant
HeaderHash(header) ==
    IF header = Canonical(header.number) THEN BlockHash(header.number)
    ELSE <<"other", header.number>>

\* the answers of the node to web3.eth.getBlock(blockHash), as headers
BlockInfos(blockHash) ==
    IF blockHash[1] # "block" THEN {}
    ELSE LET h == blockHash[2]
         IN  {Canonical(h),
              [Canonical(h) EXCEPT !.parentHash = BlockHash(h - 2)],
              [Canonical(h) EXCEPT !.stateRoot = StateRoot(h - 1)]}

Heights == (0 - MaxCalls)..TrustedBlock
BlockNumbers ==
    {LatestBlock} \cup
    ((IF TrustedBlock - MAX_BLOCK_HISTORY - 1 < 0 THEN 0
      ELSE TrustedBlock - MAX_BLOCK_HISTORY - 1)..(TrustedBlock + 1))
Callers == 1..MaxCalls

\* keccak256, rlp.encode, account.serialize(): injective encodings
keccak256(x) == <<"keccak", x>>
rlpEncode(x) == <<"rlp", x>>
Serialize(account) ==
    <<"rlp", account.nonce, account.balance, account.stateRoot, account.codeHash>>
Null == <<"null">>

EmptyCode == <<"code", 0>>
EMPTY_ACCOUNT_EXTCODEHASH == keccak256(EmptyCode)
CodeOf(address) == <<"code", address>>
OtherCode == <<"code", 0 - 1>>
StorageHash(address) == <<"storageRoot", address>>
StorageKey == 0
\* the value of the one storage slot asked for
StorageValue(address) == address

\* the account of an address in the state of the chain
TrueAccount(address) ==
    [nonce |-> 0, balance |-> address,
     stateRoot |-> StorageHash(address), codeHash |-> keccak256(CodeOf(address))]

\* a Merkle proof: the root and key it opens and the value it shows there
TrieProof(root, key, value) == [root |-> root, key |-> key, value |-> value]

\* Trie.verifyProof(root, key, proof): the proven value, or null
TrieVerifyProof(root, key, proof) ==
    IF proof.root = root /\ proof.key = key THEN proof.value ELSE Null

AccountResponse(address, stateRoot, balance, codeHash, value, code, how) ==
    [address |-> address, nonce |-> 0, balance |-> balance, codeHash |-> codeHash,
     storageHash |-> StorageHash(address),
     accountProof |-> TrieProof(stateRoot, keccak256(address),
                                Serialize(TrueAccount(address))),
     storageProof |-> <<[key |-> StorageKey, value |-> value,
                         proof |-> TrieProof(StorageHash(address), keccak256(StorageKey),
                                             rlpEncode(StorageValue(address)))]>>,
     code |-> code, how |-> how]

\* the answers of the node to getProof and getCode for one address: the proofs
\* are those of the true account and slot, the fields next to them are free
AccountResponses(address, stateRoot) ==
    LET account == TrueAccount(address)
    IN  {AccountResponse(address, stateRoot, account.balance, account.codeHash,
                         StorageValue(address), CodeOf(address), "good"),
         AccountResponse(address, stateRoot, account.balance + 1, account.codeHash,
                         StorageValue(address), CodeOf(address), "otherBalance"),
         AccountResponse(address, stateRoot, account.balance, account.codeHash,
                         StorageValue(address) + 1, CodeOf(address), "otherStorage"),
         AccountResponse(address, stateRoot, account.balance, account.codeHash,
                         StorageValue(address), OtherCode, "otherCode"),
         AccountResponse(address, stateRoot, account.balance, keccak256(OtherCode),
                         StorageValue(address), OtherCode, "otherCodeAndHash")}

\* verifyCodeHash, lines 284-289
verifyCodeHash(code, codeHash) ==
    \/ code = EmptyCode /\ codeHash = EMPTY_ACCOUNT_EXTCODEHASH
    \/ keccak256(code) = codeHash

\* verifyProof, lines 291-330
verifyProof(address, stateRoot, proof) ==
    LET key == keccak256(address)
        expectedAccountRLP == TrieVerifyProof(stateRoot, key, proof.accountProof)
        account == [nonce |-> proof.nonce, balance |-> proof.balance,
                    stateRoot |-> proof.storageHash, codeHash |-> proof.codeHash]
        isAccountValid == expectedAccountRLP # Null
                          /\ expectedAccountRLP = Serialize(account)
        isStorageValid(slot) ==
            LET expectedStorageRLP ==
                    TrieVerifyProof(proof.storageHash, keccak256(slot.key), slot.proof)
            IN  \/ expectedStorageRLP = Null /\ slot.value = 0
                \/ expectedStorageRLP # Null /\ expectedStorageRLP = rlpEncode(slot.value)
    IN  IF ~isAccountValid THEN FALSE
        ELSE \A j \in 1..Len(proof.storageProof) : isStorageValid(proof.storageProof[j])

NoCall ==
    [at |-> "idle", blockNumber |-> 0, hash |-> NoHash, header |-> NoBlockHeader,
     out |-> NoHash, error |-> "", accessList |-> 0, k |-> 0, vm |-> {},
     how |-> "none", isAccountCorrect |-> TRUE, isCodeCorrect |-> TRUE]

\* the constructor, lines 75-88
NewVerifiedProvider ==
    /\ latestBlockNumber = TrustedBlock
    /\ oldestBlockNumber = TrustedBlock
    /\ blockHashes = [h \in Heights |-> IF h = TrustedBlock THEN BlockHash(TrustedBlock)
                                        ELSE NoHash]
    /\ blockHeaders = {}
    /\ calls = [c \in Callers |-> NoCall]

Failed(rec, msg) == [rec EXCEPT !.at = "failed", !.error = msg]

IsCached(blockHash) == \E e \in blockHeaders : e.blockHash = blockHash
CachedHeader(blockHash) == (CHOOSE e \in blockHeaders : e.blockHash = blockHash).header

\* getBlockHeaderByHash, lines 226 and 251: up to its await, or its return
\* from the cache
HeaderLookup(rec, blockHash, fetching, ready) ==
    IF IsCached(blockHash)
    THEN [rec EXCEPT !.at = ready, !.hash = blockHash, !.header = CachedHeader(blockHash)]
    ELSE [rec EXCEPT !.at = fetching, !.hash = blockHash]

\* getBlockHash, lines 214-221: from the test of the loop to the next await,
\* or to the return
LoopTest(rec, oldest, hashes) ==
    IF oldest > rec.blockNumber
    THEN HeaderLookup(rec, hashes[oldest], "loopFetch", "loopHeader")
    ELSE [rec EXCEPT !.at = "hashed", !.out = hashes[rec.blockNumber]]

ProviderUnchanged == UNCHANGED <<size, provers, syncVars, gameVars, obsVars, storeVars>>

\* call, line 256, and getBlockHash, lines 202-216
CallGetBlockHash ==
    /\ pc = "provider"
    /\ \E c \in Callers, blockNumber \in BlockNumbers :
         /\ calls[c].at = "idle"
         /\ LET rec == [calls[c] EXCEPT !.blockNumber = blockNumber]
            IN  calls' = [calls EXCEPT ![c] =
                   IF blockNumber = LatestBlock
                   THEN [rec EXCEPT !.at = "hashed", !.out = blockHashes[latestBlockNumber]]
                   ELSE IF blockNumber > latestBlockNumber
                   THEN Failed(rec, "BlockNumber requested cannot be in future")
                   ELSE IF blockNumber + MAX_BLOCK_HISTORY < latestBlockNumber
                   THEN Failed(rec, "BlockNumber requested cannot be older")
                   ELSE LoopTest(rec, oldestBlockNumber, blockHashes)]
    /\ UNCHANGED <<blockHashes, blockHeaders, latestBlockNumber, oldestBlockNumber>>
    /\ ProviderUnchanged

\* getBlockHeaderByHash, lines 227-251, after the node answered
HeaderFetched(c, at, ready) ==
    /\ calls[c].at = at
    /\ \E header \in BlockInfos(calls[c].hash) :
         IF HeaderHash(header) # calls[c].hash
         THEN /\ calls' = [calls EXCEPT ![c] = Failed(@, "Invalid block or blockHash")]
              /\ UNCHANGED blockHeaders
         ELSE /\ blockHeaders' =
                    {e \in blockHeaders : e.blockHash # calls[c].hash}
                    \cup {[blockHash |-> calls[c].hash, header |-> header]}
              /\ calls' = [calls EXCEPT ![c] = [@ EXCEPT !.at = ready, !.header = header]]
    /\ UNCHANGED <<blockHashes, latestBlockNumber, oldestBlockNumber>>
    /\ ProviderUnchanged

\* getBlockHash, line 216: the header of blockHashes[oldestBlockNumber] arrives
GetBlockHashFetched ==
    /\ pc = "provider"
    /\ \E c \in Callers : HeaderFetched(c, "loopFetch", "loopHeader")

\* getBlockHash, lines 217-221: after the await of line 216
GetBlockHashAdvance ==
    /\ pc = "provider"
    /\ \E c \in Callers :
         /\ calls[c].at = "loopHeader"
         /\ oldestBlockNumber' = oldestBlockNumber - 1
         /\ blockHashes' = [blockHashes EXCEPT
                               ![oldestBlockNumber - 1] = calls[c].header.parentHash]
         /\ calls' = [calls EXCEPT ![c] = LoopTest(@, oldestBlockNumber', blockHashes')]
    /\ UNCHANGED <<blockHeaders, latestBlockNumber>>
    /\ ProviderUnchanged

\* call, line 257, up to the await of getBlockHeaderByHash
CallGetHeader ==
    /\ pc = "provider"
    /\ \E c \in Callers :
         /\ calls[c].at = "hashed"
         /\ calls' = [calls EXCEPT ![c] =
                         HeaderLookup(@, calls[c].out, "callFetch", "header")]
    /\ UNCHANGED <<blockHashes, blockHeaders, latestBlockNumber, oldestBlockNumber>>
    /\ ProviderUnchanged

\* call, line 257: the header of the block asked for arrives
CallHeaderFetched ==
    /\ pc = "provider"
    /\ \E c \in Callers : HeaderFetched(c, "callFetch", "header")

\* getVM, lines 129-169: the access list and the batch of requests
GetVMBegin ==
    /\ pc = "provider"
    /\ \E c \in Callers, n \in 1..MaxAccess :
         /\ calls[c].at = "header"
         /\ calls' = [calls EXCEPT ![c] =
                         [@ EXCEPT !.at = "getVM", !.accessList = n, !.k = 1, !.vm = {}]]
    /\ UNCHANGED <<blockHashes, blockHeaders, latestBlockNumber, oldestBlockNumber>>
    /\ ProviderUnchanged

\* getVM, lines 171-197: one [accountProof, code] of the answers
GetVMEntry ==
    /\ pc = "provider"
    /\ \E c \in Callers :
         /\ calls[c].at = "getVM" /\ calls[c].k <= calls[c].accessList
         /\ LET stateRoot == calls[c].header.stateRoot
            IN  \E accountProof \in AccountResponses(calls[c].k, stateRoot) :
                  LET code == accountProof.code
                      isAccountCorrect ==
                          verifyProof(accountProof.address, stateRoot, accountProof)
                      isCodeCorrect == verifyCodeHash(code, accountProof.codeHash)
                      rec == [calls[c] EXCEPT !.how = accountProof.how,
                                              !.isAccountCorrect = isAccountCorrect,
                                              !.isCodeCorrect = isCodeCorrect]
                      account == [address |-> accountProof.address,
                                  nonce |-> accountProof.nonce,
                                  balance |-> accountProof.balance,
                                  codeHash |-> accountProof.codeHash,
                                  storage |-> {<<accountProof.storageProof[j].key,
                                                 accountProof.storageProof[j].value>> :
                                               j \in 1..Len(accountProof.storageProof)},
                                  code |-> code]
                  IN  calls' = [calls EXCEPT ![c] =
                         IF accountProof.address = 0 \/ ~isCodeCorrect
                         THEN Failed(rec, "Invalid RPC proof")
                         ELSE [rec EXCEPT !.k = @ + 1, !.vm = @ \cup {account}]]
    /\ UNCHANGED <<blockHashes, blockHeaders, latestBlockNumber, oldestBlockNumber>>
    /\ ProviderUnchanged

\* getVM, lines 198-199, and call, lines 258-275
GetVMCommit ==
    /\ pc = "provider"
    /\ \E c \in Callers :
         /\ calls[c].at = "getVM" /\ calls[c].k > calls[c].accessList
         /\ calls' = [calls EXCEPT ![c] = [@ EXCEPT !.at = "done"]]
    /\ UNCHANGED <<blockHashes, blockHeaders, latestBlockNumber, oldestBlockNumber>>
    /\ ProviderUnchanged

(***************************************************************************)
(* Specification of sync()                                                 *)
(***************************************************************************)
NoStoreProver == DummyStoreProver(TRUE, 0, 0)
NoVerify == [call |-> "none", prev |-> <<>>, cur |-> <<>>, update |-> NoUpdate,
             out |-> "none", p |-> 0]

SyncIdle(at) ==
    /\ pc = at /\ i = 0 /\ validProverInfos = <<>>
    /\ winners = <<>> /\ ti = 0 /\ wi = 0 /\ result = NoResult
    /\ peak = -1 /\ offset = 0 /\ stepsToLeafs = 0
    /\ node1 = <<>> /\ node2 = <<>> /\ index = 0 /\ nodeInfo1 = NoChildren
    /\ period = 0 /\ committee1 = <<>> /\ committee2 = <<>>
    /\ prevCommittee = <<>> /\ is1Correct = FALSE
    /\ queries = NoQueries /\ games = 0 /\ last = NoLast

SyncInit == SyncIdle("audit")

Init ==
    /\ size \in 0..MaxSize
    /\ provers \in UNION {[1..k -> {"honest", "adversary"}] : k \in 0..MaxProvers}
    /\ SyncInit
    /\ sp = NoStoreProver /\ sv = NoVerify
    /\ NewVerifiedProvider

Next ==
    \/ Audit
    \/ BeginTournament
    \/ TournamentPool
    \/ TournamentPlay
    \/ GetNode1
    \/ GetNode2
    \/ GetLeaf1
    \/ GetLeaf2
    \/ GetPrevLeaf
    \/ GetUpdate1
    \/ GetUpdate2
    \/ EndTournament
    \/ FinalLeaf
    \/ FinalNoSurvivor
    \/ FinalFail

Spec == Init /\ [][Next]_vars

\* two provers and one peak of n^DeepDepth leaves
InitDeep ==
    /\ size = Pow(N, DeepDepth) - 1
    /\ provers \in [1..2 -> {"honest", "adversary"}]
    /\ SyncInit
    /\ sp = NoStoreProver /\ sv = NoVerify
    /\ NewVerifiedProvider

SpecDeep == InitDeep /\ [][Next]_vars

\* two provers and one peak of n^LiveDepth leaves, or up to MaxProvers provers
\* and one peak of n leaves; every await of sync() is on a prover query, and a
\* query that returns lets sync() go on
InitLive ==
    /\ \/ /\ size = Pow(N, LiveDepth) - 1
          /\ provers \in [1..2 -> {"honest", "adversary"}]
       \/ /\ size = N - 1
          /\ provers \in UNION {[1..k -> {"honest", "adversary"}] : k \in 0..MaxProvers}
    /\ SyncInit
    /\ sp = NoStoreProver /\ sv = NoVerify
    /\ NewVerifiedProvider

SpecLive == InitLive /\ [][Next]_vars /\ WF_vars(Next)

(***************************************************************************)
(* Specification of the dummy store: a DummyStoreProver is constructed and *)
(* DummyStoreVerifier.syncUpdateVerify is called on it                     *)
(***************************************************************************)
\* getRandomInt(size): an index below size (0 when size is 0)
RandomInts(sz) == IF sz = 0 THEN {0} ELSE 0..(sz - 1)

StoreProvers ==
    {DummyStoreProver(TRUE, sz, 0) : sz \in 0..MaxChain}
    \cup UNION {{DummyStoreProver(FALSE, sz, r) : r \in RandomInts(sz)} : sz \in 0..MaxChain}

\* committees a caller may pass: those of the prover, one cut short, one
\* with a key more, none, and one whose bytes are no public keys
CommitteeInputs(prover) ==
    LET own == {getSyncCommittee(prover, q) : q \in 0..prover.size}
    IN  own
        \cup {SubSeq(c, 1, Len(c) - 1) : c \in own}
        \cup {Append(getSyncCommittee(prover, 0), PubKey(1, 0, 1)),
              <<concatUint8Array(getSyncCommittee(prover, 0))>>}

\* updates a caller may pass: those of the prover, none, one without a
\* header, one without nextCommittee
UpdateInputs(prover) ==
    {getSyncUpdate(prover, q) : q \in 0..(prover.size - 1)}
    \cup {NoUpdate,
          [present |-> TRUE, header |-> NoHeader, aggregateSignature |-> ZeroSignature],
          [present |-> TRUE,
           header |-> [present |-> TRUE, hasNext |-> FALSE, nextCommittee |-> <<>>,
                       epoch |-> 0],
           aggregateSignature |-> ZeroSignature]}

StoreInit ==
    /\ sp \in StoreProvers
    /\ sv = NoVerify
    /\ size = 0 /\ provers = <<>>
    /\ SyncIdle("store")
    /\ NewVerifiedProvider

\* syncUpdateVerify(getSyncCommittee(p - 1), getSyncCommittee(p), getSyncUpdate(p - 1))
VerifyRoundTrip ==
    /\ pc = "store" /\ sv.call = "none"
    /\ \E p \in 1..sp.size :
         LET prev == getSyncCommittee(sp, p - 1)
             cur == getSyncCommittee(sp, p)
             update == getSyncUpdate(sp, p - 1)
         IN  sv' = [call |-> "roundTrip", prev |-> prev, cur |-> cur, update |-> update,
                    out |-> syncUpdateVerify(prev, cur, update), p |-> p]
    /\ UNCHANGED <<sp, worldVars, syncVars, gameVars, obsVars>>

\* syncUpdateVerify on any input
VerifyAny ==
    /\ pc = "store" /\ sv.call = "none"
    /\ \E prev \in CommitteeInputs(sp), cur \in CommitteeInputs(sp),
          update \in UpdateInputs(sp) :
         sv' = [call |-> "any", prev |-> prev, cur |-> cur, update |-> update,
                out |-> syncUpdateVerify(prev, cur, update), p |-> 0]
    /\ UNCHANGED <<sp, worldVars, syncVars, gameVars, obsVars>>

StoreNext == VerifyRoundTrip \/ VerifyAny

SpecStore == StoreInit /\ [][StoreNext]_vars

(***************************************************************************)
(* Specification of VerifiedProvider: MaxCalls invocations of call() that  *)
(* interleave at their awaits                                              *)
(***************************************************************************)
ProviderInit ==
    /\ NewVerifiedProvider
    /\ size = 0 /\ provers = <<>>
    /\ sp = NoStoreProver /\ sv = NoVerify
    /\ SyncIdle("provider")

ProviderNext ==
    \/ CallGetBlockHash
    \/ GetBlockHashFetched
    \/ GetBlockHashAdvance
    \/ CallGetHeader
    \/ CallHeaderFetched
    \/ GetVMBegin
    \/ GetVMEntry
    \/ GetVMCommit

SpecProvider == ProviderInit /\ [][ProviderNext]_vars

(***************************************************************************)
(* Claims                                                                  *)
(***************************************************************************)
HasHonest == \E k \in 1..Len(provers) : provers[k] = "honest"
TrueLatestCommittee == ChainCommittee(mmrSize, size)

\* C1: whenever some prover is honest, sync() returns a non-empty list and
\* every returned syncCommittee is the true latest committee.
C1_HonestMinoritySoundness ==
    (pc = "done" /\ HasHonest) =>
        /\ result.kind = "ok"
        /\ Len(result.records) > 0
        /\ \A r \in 1..Len(result.records) :
               result.records[r].syncCommittee = TrueLatestCommittee

\* C2: sync() fails only if no prover that passed the MMR audit is honest.
C2_FailsOnlyIfAllDishonest ==
    result.kind = "error" =>
        \A k \in 1..Len(validProverInfos) :
            provers[validProverInfos[k].index + 1] # "honest"

\* the leaf committed for the latest period in audited peaks
CommittedLatestLeaf(peaks) == OwnLeaf(peaks, Latest).leaf

\* C3: with at least one survivor of the audit, the final loop asks the
\* winners in list order for their latest leaf; a winner whose leaf does not
\* verify is passed over, the first whose leaf verifies is returned alone with
\* syncCommittee set to the verified committee, and when all have failed
\* sync() throws 'all winners cheated' and returns no record.
C3_FinalCommitment ==
    [][(pc = "final" /\ winners[1].defined) =>
        \/ /\ wi < Len(winners)
           /\ last'.op = "getLatest" /\ last'.prover = winners[wi + 1].index
           /\ last'.how = "badProof"
           /\ wi' = wi + 1 /\ pc' = "final" /\ result' = NoResult
        \/ /\ wi < Len(winners)
           /\ last'.op = "getLatest" /\ last'.prover = winners[wi + 1].index
           /\ last'.how # "badProof"
           /\ pc' = "done" /\ result'.kind = "ok" /\ Len(result'.records) = 1
           /\ result'.records[1].hasSyncCommittee
           /\ digest(concatUint8Array(result'.records[1].syncCommittee))
                  = CommittedLatestLeaf(winners[wi + 1].peaks)
           /\ result'.records[1] =
                  [winners[wi + 1] EXCEPT
                      !.hasSyncCommittee = TRUE,
                      !.syncCommittee = result'.records[1].syncCommittee]
           /\ ~winners[wi + 1].hasSyncCommittee
        \/ /\ wi = Len(winners)
           /\ pc' = "done" /\ result' = Thrown("all winners cheated")
        \/ UNCHANGED vars]_vars

\* C3 witness: the first winner failed the final audit and the second was returned
C3_Witness ==
    /\ pc = "done" /\ result.kind = "ok" /\ wi = 1
    /\ result.records[1].index = winners[2].index

\* C4: when no prover passes the MMR audit, sync() ends with the same
\* 'all winners cheated' error as when every winner fails the final audit,
\* with no game played and no prover queried after the audit.
C4_NoSurvivorOutcome ==
    (pc = "done" /\ validProverInfos = <<>>) =>
        /\ result = Thrown("all winners cheated")
        /\ games = 0
        /\ queries = NoQueries

MalformedAnswers == {"missing", "badLength", "badHash", "badProof", "badMMR", "badSignature"}

\* C5: a structurally bad answer of a prover never aborts sync().
C5_MalformedNeverAborts ==
    ~(pc = "done" /\ result.kind = "error" /\ last.how \in MalformedAnswers)

\* C6: when both provers verify as correct at the disputed leaf, sync() aborts
\* with an error and returns no record, whatever earlier games decided.
C6_InvariantViolationFatal ==
    last.adj = "TT" =>
        /\ pc = "done"
        /\ result.kind = "error"
        /\ result.error = "both updates can not be correct at the same time"
        /\ result.records = <<>>

\* C6 witness: both sides verified in a second game, after a first game had a winner
C6_Witness == last.adj = "TT" /\ games >= 2

\* depth of the peak the current game bisects (of the largest peak outside a game)
GameDepth ==
    IF peak >= 0 THEN logFloor(currWinner.peaks[peak + 1].size, N)
    ELSE logFloor(mmrSize, N)

\* C7: a game on a peak of n^d leaves sends at most d getNode queries to each
\* prover, at most 3 getLeafWithProof and 2 update queries; when the leaf is
\* reached every level has been descended (3 levels, 6 getNode calls for a
\* peak of 8 leaves and n = 2).
C7_InteractionBound ==
    /\ queries.getNode1 <= GameDepth
    /\ queries.getNode2 <= GameDepth
    /\ queries.getLeaf <= 3
    /\ queries.getUpdate <= 2
    /\ (pc = "getLeaf1" => queries.getNode1 = GameDepth /\ queries.getNode2 = GameDepth)
    /\ (peak >= 0 /\ N = 2 /\ currWinner.peaks[peak + 1].size = 8 =>
           /\ queries.getNode1 + queries.getNode2 <= 6
           /\ (pc = "getLeaf1" => queries.getNode1 + queries.getNode2 = 6))

\* C7 witness: a game that went down every level and asked every leaf and update
C7_Witness ==
    /\ pc = "getUpdate2"
    /\ queries = [getNode1 |-> DeepDepth, getNode2 |-> DeepDepth,
                  getLeaf |-> 3, getUpdate |-> 1]
    /\ currWinner.peaks[peak + 1].size = Pow(N, DeepDepth)

\* the two conditions of the contract of syncUpdateVerify
NextCommitteeIs(cur, update) ==
    /\ update.present /\ update.header.present /\ update.header.hasNext
    /\ update.header.nextCommittee = cur
SignedBy(prev, update) ==
    /\ update.present /\ update.header.present /\ update.header.hasNext
    /\ \A k \in 1..Len(prev) : IsPublicKey(prev[k])
    /\ SignatureParses(update.aggregateSignature)
    /\ verifyAggregate(update.aggregateSignature, prev, hashHeader(update.header))

\* C8: syncUpdateVerify(prev, cur, update) is true iff update.header.nextCommittee
\* equals cur and the aggregate signature verifies under prev.
C8_VerifyIffContract ==
    sv.call # "none" =>
        (sv.out = "true" <=> (NextCommitteeIs(sv.cur, sv.update) /\ SignedBy(sv.prev, sv.update)))

\* C9: syncUpdateVerify never throws.
C9_VerifyNeverThrows ==
    sv.call # "none" => sv.out # "throw"

\* C10: on the chain of an honest DummyStoreProver every round trip
\* syncUpdateVerify(committee[p-1], committee[p], update[p-1]) is true; on a
\* dishonest chain it is false at the update of the dishonesty index.
C10_HonestChainRoundTrip ==
    sv.call = "roundTrip" =>
        /\ (sp.honest => sv.out = "true")
        /\ (~sp.honest /\ sv.p - 1 = sp.dishonestyIndex => sv.out = "false")

\* C10 witness: the last round trip of an honest chain of several periods
C10_Witness ==
    /\ sv.call = "roundTrip" /\ sp.honest /\ sp.size >= 2 /\ sv.p = sp.size
    /\ sv.out = "true"

\* an honest prover is among the winners
HonestInWinners ==
    \E k \in 1..Len(winners) :
        winners[k].defined /\ provers[winners[k].index + 1] = "honest"

\* C11: once an honest prover has been admitted to winners it stays in
\* winners until the tournament ends, whichever pooled prover plays the later
\* games and however it answers.
C11_PooledProversStay ==
    [][(HonestInWinners /\ pc' # "done") => HonestInWinners']_vars

\* the client is inside a peaksVsPeaks game
InGame == pc \in {"getNode1", "getNode2", "getLeaf1", "getLeaf2", "getPrevLeaf",
                  "getUpdate1", "getUpdate2"}

\* C12: winners starts as [survivors[0]]; each later survivor p, in index
\* order, is appended without a game when p.root equals winners[0].root;
\* otherwise peaksVsPeaks(winners[0], p) is played and, when it returns true,
\* p is discarded and winners is unchanged, when it returns false, winners
\* becomes exactly [p].
C12_TournamentStepRule ==
    [][
       /\ (pc = "audit" /\ pc' = "tournament" /\ validProverInfos # <<>>) =>
              (winners' = <<validProverInfos[1]>> /\ ti' = 1 /\ games' = 0)
       /\ (pc = "tournament" /\ ti < Len(validProverInfos)
              /\ currProver.root = currWinner.root) =>
              (/\ winners' = Append(winners, currProver)
               /\ ti' = ti + 1 /\ games' = games /\ pc' = "tournament")
       /\ (pc = "tournament" /\ ti < Len(validProverInfos)
              /\ currProver.root # currWinner.root /\ pc' # "done") =>
              (games' = games + 1 /\ winners' = winners /\ ti' = ti /\ InGame')
       /\ (InGame /\ InGame') =>
              (winners' = winners /\ ti' = ti /\ games' = games)
       /\ (InGame /\ pc' = "tournament") =>
              (/\ ti' = ti + 1 /\ games' = games
               /\ last'.verdict \in {"true", "false"}
               /\ (last'.verdict = "true" => winners' = winners)
               /\ (last'.verdict = "false" => winners' = <<validProverInfos[ti + 1]>>))
    ]_vars

\* C12 witness: a pool of two winners has just been replaced by the
\* challenger that defeated winners[0]
C12_Witness ==
    /\ pc = "tournament" /\ ti = 3 /\ games = 1
    /\ last.verdict = "false"
    /\ winners = <<validProverInfos[3]>>

\* every survivor of the audit presents the same root
AllSameRoot ==
    \A k \in 1..Len(validProverInfos) : validProverInfos[k].root = validProverInfos[1].root

\* C13: the tournament plays exactly one game for each survivor after the
\* first whose root differs from winners[0].root at its turn, so at most
\* (survivors - 1) games; it plays none when there is one survivor or when all
\* survivors present the same root, and then all of them end up in winners.
C13_GameCount ==
    [][
       /\ games' \in {games, games + 1}
       /\ (games' = games + 1) <=>
              (pc = "tournament" /\ ti < Len(validProverInfos)
                  /\ currProver.root # currWinner.root)
       /\ (validProverInfos' # <<>>) => games' <= Len(validProverInfos') - 1
       /\ (validProverInfos' = <<>>) => games' = 0
       /\ (pc' = "final" /\ validProverInfos' # <<>> /\ AllSameRoot') =>
              (games' = 0 /\ winners' = validProverInfos')
    ]_vars

\* C13 witness: three survivors with one root reached the end of the
\* tournament without a game
C13_Witness ==
    /\ pc = "final" /\ Len(validProverInfos) = 3 /\ AllSameRoot
    /\ games = 0 /\ winners = validProverInfos

\* indices of the provers that passed the audit
SurvivorIndices == {validProverInfos[k].index : k \in 1..Len(validProverInfos)}

\* C14: sync() asks every prover once for its MMR, in order, and keeps
\* prover i iff verify(root, peaks, currentPeriod - genesisPeriod + 1) holds;
\* survivors keep increasing index order, and a prover that failed receives
\* no later query and is neither in winners nor in the result.
C14_InitialAudit ==
    [][
       /\ (pc = "audit" /\ i < Len(provers)) =>
              /\ i' = i + 1 /\ pc' = "audit"
              /\ last'.op = "getMMRInfo" /\ last'.prover = i
              /\ \/ /\ last'.how = "good"
                    /\ Len(validProverInfos') = Len(validProverInfos) + 1
                    /\ SubSeq(validProverInfos', 1, Len(validProverInfos)) = validProverInfos
                    /\ validProverInfos'[Len(validProverInfos')].index = i
                 \/ /\ last'.how = "badMMR"
                    /\ validProverInfos' = validProverInfos
       /\ ~(pc = "audit" /\ i < Len(provers)) =>
              (last'.op # "getMMRInfo" /\ validProverInfos' = validProverInfos /\ i' = i)
       /\ \A k \in 1..Len(validProverInfos') :
              /\ MMRVerify(validProverInfos'[k].root, validProverInfos'[k].peaks, size' + 1)
              /\ validProverInfos'[k].index \in 0..(i' - 1)
              /\ k > 1 => validProverInfos'[k - 1].index < validProverInfos'[k].index
       /\ (last'.op \notin {"none", "getMMRInfo"}) => last'.prover \in SurvivorIndices'
       /\ \A k \in 1..Len(winners') :
              winners'[k].defined => winners'[k] \in {validProverInfos'[m] : m \in 1..Len(validProverInfos')}
       /\ \A k \in 1..Len(result'.records) : result'.records[k].index \in SurvivorIndices'
    ]_vars

\* C14 witness: of three provers the first failed the audit, the others
\* passed it and the last one was returned
C14_Witness ==
    /\ pc = "done" /\ result.kind = "ok" /\ Len(provers) = 3
    /\ SurvivorIndices = {1, 2}
    /\ result.records[1].index = 2

\* the leaf a prover's audited peaks commit to at a period
CommittedLeaf(peaks, per) == OwnLeaf(peaks, per).leaf

\* periods at which the MMRs of the two sides of the game commit to different leaves
DifferingPeriods ==
    {per \in 0..(mmrSize - 1) :
        CommittedLeaf(currWinner.peaks, per) # CommittedLeaf(currProver.peaks, per)}

\* C15: when bisection has ended with every structural check passed, the
\* leaf index treeVsTree returned is the smallest leaf of the disputed peak at
\* which the two committed trees differ, and the period handed to
\* checkNodeAndPrevUpdate is the smallest period at which the two MMRs differ.
C15_FirstDisagreement ==
    pc = "getLeaf1" =>
        /\ period \in DifferingPeriods
        /\ \A per \in DifferingPeriods : period <= per
        /\ index = period - offset
        /\ index \in 0..(currWinner.peaks[peak + 1].size - 1)

\* positions (from 0) at which the peak roots of the two sides differ
DifferingPeaks ==
    {k \in 0..(Len(currWinner.peaks) - 1) :
        currWinner.peaks[k + 1].rootHash # currProver.peaks[k + 1].rootHash}

\* leaves in the peaks to the left of position k
RECURSIVE LeavesBefore(_, _)
LeavesBefore(peaks, k) ==
    IF k = 0 THEN 0 ELSE LeavesBefore(peaks, k - 1) + peaks[k].size

\* the game is on the first peak that differs, with the leaves to its left as offset
OnFirstDifferingPeak ==
    /\ peak \in DifferingPeaks
    /\ \A k \in DifferingPeaks : peak <= k
    /\ offset = LeavesBefore(currWinner.peaks, peak)
    /\ stepsToLeafs + queries.getNode2 = logFloor(currWinner.peaks[peak + 1].size, N)

\* treeVsTree starts from the two roots of the disputed peak
AtPeakRoots ==
    /\ node1 = currWinner.peaks[peak + 1].rootHash
    /\ node2 = currProver.peaks[peak + 1].rootHash
    /\ index = 0

\* the disputed period is the offset plus the leaf index that came back
AtDisputedLeaf == stepsToLeafs = 0 /\ period = offset + index

\* C16: peaksVsPeaks runs treeVsTree on the first position whose peak roots
\* differ and on no other, from the two roots of that peak and with depth
\* log_n of its size, and disputes the period (leaves of the peaks to its
\* left) + (leaf index that came back).
C16_DisputeLocation ==
    [][
       /\ InGame' => OnFirstDifferingPeak'
       /\ (~InGame /\ pc' = "getNode1") => AtPeakRoots'
       /\ (InGame /\ InGame') => (peak' = peak /\ offset' = offset)
       /\ (pc' \in {"getLeaf1", "getLeaf2", "getPrevLeaf", "getUpdate1", "getUpdate2"}) =>
              AtDisputedLeaf'
    ]_vars

\* C16 witness: the peaks agree on the first peak of two leaves and the
\* dispute is on the leaf of the second peak, period 2
C16_Witness ==
    /\ pc = "getLeaf1" /\ peak = 1 /\ offset = 2 /\ index = 0 /\ period = 2

\* a getNode answer fails the structural check for the node it was asked for
FailsStructuralCheck(info, node) ==
    Len(info.children) # N \/ digest(concatUint8Array(info.children)) # node

\* C17: at every level of treeVsTree the current winner A is rejected (the
\* game returns false) iff its children are not n or do not hash to its node;
\* otherwise the challenger B is rejected (the game returns true) iff its
\* children are not n or do not hash to its node; A's check comes first, and
\* a rejection ends the game with no further getNode query.
C17_StructuralChecks ==
    [][pc = "getNode2" =>
        \E info2 \in NodeResponses(prover2, node2) :
            IF FailsStructuralCheck(nodeInfo1, node1)
            THEN /\ pc' = "tournament" /\ last'.verdict = "false"
                 /\ winners' = <<currProver>>
            ELSE /\ last'.prover = currProver.index /\ last'.how = info2.how
                 /\ IF FailsStructuralCheck(info2, node2)
                    THEN /\ pc' = "tournament" /\ last'.verdict = "true"
                         /\ winners' = winners
                    ELSE pc' \in {"getNode1", "getLeaf1"} /\ last'.verdict = "recurse"
    ]_vars

\* the getNode queries of a game come in pairs, level by level, and before
\* every leaf and update query
QueriesInOrder ==
    /\ (pc = "getNode1") => queries.getNode1 = queries.getNode2
    /\ (pc = "getNode2") => queries.getNode1 = queries.getNode2 + 1
    /\ (pc \in {"getNode1", "getNode2"}) =>
           (queries.getLeaf = 0 /\ queries.getUpdate = 0 /\ stepsToLeafs > 0)
    /\ (InGame /\ pc \notin {"getNode1", "getNode2"}) =>
           (queries.getNode1 = queries.getNode2 /\ stepsToLeafs = 0)

\* C18: both getNode queries of a level have completed before a query of the
\* next level is issued, the next level asks for the children at the smallest
\* position where the two answers just observed differ, and no leaf or update
\* query is issued before bisection has ended.
C18_QueryOrdering ==
    [][
       /\ QueriesInOrder'
       /\ (pc = "getNode1") => (pc' = "getNode2" /\ node1' = node1 /\ node2' = node2)
       /\ (pc = "getNode2" /\ pc' \in {"getNode1", "getLeaf1"}) =>
              \E info2 \in {r \in NodeResponses(prover2, node2) :
                                r.how = last'.how /\ Len(r.children) = N} :
                 \E j \in 1..N :
                    /\ nodeInfo1.children[j] # info2.children[j]
                    /\ \A m \in 1..(j - 1) : nodeInfo1.children[m] = info2.children[m]
                    /\ index' = index * N + (j - 1)
                    /\ stepsToLeafs' = stepsToLeafs - 1
                    /\ (pc' = "getNode1") =>
                           (node1' = nodeInfo1.children[j] /\ node2' = info2.children[j])
    ]_vars

\* C18 witness: the third level of a bisection is being asked, on the right
\* of the left half
C18_Witness ==
    /\ pc = "getNode2" /\ queries.getNode1 = 3 /\ queries.getNode2 = 2
    /\ index = 1 /\ stepsToLeafs = 1

\* the verification outcome of the current winner at the disputed leaf
WinnerVerified ==
    IF period = 0 THEN isCommitteeSame(getGenesisSyncCommittee, committee1)
    ELSE is1Correct

\* C19: with Aok and Bok the verification outcomes of the two sides at the
\* disputed leaf, checkNodeAndPrevUpdate returns true iff Aok and not Bok,
\* false if Bok and not Aok, false if neither, and throws if both; so the
\* adjudication never lets A win unless A's own evidence verified.
C19_AdjudicationTable ==
    [][(last'.adj # "none") =>
        /\ pc \in {"getLeaf2", "getUpdate2"}
        /\ (pc = "getLeaf2") => period = 0
        /\ last'.adj \in {"TT", "TF", "FT", "FF"}
        /\ (last'.adj \in {"TT", "TF"}) <=> WinnerVerified
        /\ (last'.adj = "TF") =>
               (last'.verdict = "true" /\ pc' = "tournament" /\ winners' = winners)
        /\ (last'.adj \in {"FT", "FF"}) =>
               (last'.verdict = "false" /\ pc' = "tournament" /\ winners' = <<currProver>>)
        /\ (last'.adj = "TT") =>
               (/\ last'.verdict = "throw" /\ pc' = "done"
                /\ result' = Thrown("both updates can not be correct at the same time"))
        /\ (last'.verdict = "true") => WinnerVerified
    ]_vars

\* C19 witness: neither update verified and the challenger replaced the winner
C19_Witness ==
    /\ last.adj = "FF" /\ last.op = "getUpdate" /\ last.verdict = "false"
    /\ pc = "tournament" /\ Len(winners) = 1 /\ winners[1].index = last.prover

\* C20: at the disputed leaf, when A's Merkle proof fails the game returns
\* false without asking B; otherwise, when B's proof fails, it returns true;
\* in both cases no previous-committee leaf and no update is asked for.
C20_InclusionFailure ==
    [][
       /\ (pc = "getLeaf1") =>
              \E response \in LeafResponses(prover1, currWinner.peaks, period) :
                 /\ last'.how = response.how /\ last'.prover = currWinner.index
                 /\ queries' = [queries EXCEPT !.getLeaf = 1]
                 /\ IF MerkleVerify(digest(concatUint8Array(response.syncCommittee)),
                                    index, currWinner.peaks[peak + 1].rootHash,
                                    response.proof)
                    THEN pc' = "getLeaf2" /\ committee1' = response.syncCommittee
                    ELSE /\ pc' = "tournament" /\ last'.verdict = "false"
                         /\ winners' = <<currProver>>
       /\ (pc = "getLeaf2") =>
              \E response \in LeafResponses(prover2, currProver.peaks, period) :
                 /\ last'.how = response.how /\ last'.prover = currProver.index
                 /\ queries' = [queries EXCEPT !.getLeaf = 2]
                 /\ IF MerkleVerify(digest(concatUint8Array(response.syncCommittee)),
                                    index, currProver.peaks[peak + 1].rootHash,
                                    response.proof)
                    THEN pc' = "getPrevLeaf" \/ last'.adj # "none"
                    ELSE /\ pc' = "tournament" /\ last'.verdict = "true"
                         /\ last'.adj = "none" /\ winners' = winners
    ]_vars

\* C20 witness: A's leaf verified, B's leaf failed its proof and A stands
C20_Witness ==
    /\ pc = "tournament" /\ last.op = "getLeaf" /\ last.how = "badProof"
    /\ last.verdict = "true" /\ queries.getLeaf = 2 /\ queries.getUpdate = 0
    /\ winners[1].index # last.prover

\* the genesis committee of the chain, as the honest store holds it
GenesisOfChain == getSyncCommittee(DummyStoreProver(TRUE, 0, 0), 0)

\* C21: when the disputed period is 0 each side is correct iff its verified
\* committee is the genesis committee, the verdict follows the adjudication
\* table, and no previous leaf and no update is asked for.
C21_GenesisCase ==
    [][(pc = "getLeaf2" /\ period = 0) =>
        \E response \in LeafResponses(prover2, currProver.peaks, 0) :
            /\ last'.how = response.how
            /\ pc' \in {"tournament", "done"}
            /\ queries' = [queries EXCEPT !.getLeaf = 2]
            /\ queries'.getUpdate = 0
            /\ (last'.how # "badProof") =>
                  LET aOk == committee1 = GenesisOfChain
                      bOk == response.syncCommittee = GenesisOfChain
                  IN  /\ last'.adj = AdjOf(aOk, bOk)
                      /\ (aOk /\ ~bOk) => (last'.verdict = "true" /\ winners' = winners)
                      /\ (~aOk) => (last'.verdict = "false" /\ winners' = <<currProver>>)
                      /\ (aOk /\ bOk) => (last'.verdict = "throw" /\ result'.kind = "error")
    ]_vars

\* C21 witness: at period 0 the winner showed the genesis committee and the
\* challenger another one
C21_Witness ==
    /\ last.op = "getLeaf" /\ last.adj = "TF" /\ last.verdict = "true"
    /\ queries = [getNode1 |-> 0, getNode2 |-> 0, getLeaf |-> 2, getUpdate |-> 0]
    /\ pc = "tournament"

LeafVerifies(response, peaks, per) ==
    LET lastPeak == peaks[Len(peaks)]
        localIndex == IF per = Latest THEN lastPeak.size - 1
                      ELSE getPeakAndIndex(peaks, per).index
        root == IF per = Latest THEN lastPeak.rootHash
                ELSE getPeakAndIndex(peaks, per).peak.rootHash
    IN  MerkleVerify(digest(concatUint8Array(response.syncCommittee)),
                     localIndex, root, response.proof)

\* C23: at each of its four call sites getVerifiedSyncCommittee hands on the
\* committee of the answer iff H(concat(committee)) verifies at the local
\* index under the root hash of the audited peak (the rightmost peak and
\* index size - 1 for 'latest'), and nothing otherwise, whatever the rootHash
\* field of the answer is.
C23_VerifiedSyncCommittee ==
    [][
       /\ (pc = "getLeaf1") =>
              \E response \in LeafResponses(prover1, currWinner.peaks, period) :
                 /\ last'.how = response.how
                 /\ IF LeafVerifies(response, currWinner.peaks, period)
                    THEN pc' = "getLeaf2" /\ committee1' = response.syncCommittee
                    ELSE pc' = "tournament" /\ last'.verdict = "false"
       /\ (pc = "getLeaf2") =>
              \E response \in LeafResponses(prover2, currProver.peaks, period) :
                 /\ last'.how = response.how
                 /\ IF LeafVerifies(response, currProver.peaks, period)
                    THEN \/ period > 0 /\ pc' = "getPrevLeaf"
                            /\ committee2' = response.syncCommittee
                         \/ period = 0 /\ last'.adj =
                               AdjOf(committee1 = GenesisOfChain,
                                     response.syncCommittee = GenesisOfChain)
                    ELSE pc' = "tournament" /\ last'.verdict = "true"
                         /\ last'.adj = "none"
       /\ (pc = "getPrevLeaf") =>
              \E response \in LeafResponses(prover1, currWinner.peaks, period - 1) :
                 /\ last'.how = response.how
                 /\ IF LeafVerifies(response, currWinner.peaks, period - 1)
                    THEN pc' = "getUpdate1" /\ prevCommittee' = response.syncCommittee
                    ELSE pc' = "tournament" /\ last'.verdict = "false"
       /\ (pc = "final" /\ wi < Len(winners) /\ winners[wi + 1].defined) =>
              \E response \in LeafResponses(provers[winners[wi + 1].index + 1],
                                            winners[wi + 1].peaks, Latest) :
                 /\ last'.how = response.how
                 /\ IF LeafVerifies(response, winners[wi + 1].peaks, Latest)
                    THEN /\ result'.kind = "ok"
                         /\ result'.records[1].syncCommittee = response.syncCommittee
                         /\ result'.records[1].index = winners[wi + 1].index
                    ELSE result' = result /\ wi' = wi + 1 /\ pc' = "final"
    ]_vars

\* C23 witness: an answer carrying a root hash that is not the audited one was
\* accepted for 'latest' and its committee returned
C23_Witness ==
    /\ pc = "done" /\ result.kind = "ok"
    /\ last.op = "getLatest" /\ last.how = "badRoot" /\ last.verdict = "true"
    /\ result.records[1].syncCommittee =
          KeysOf(Preimage(CommittedLatestLeaf(result.records[1].peaks)))

\* the client is inside tournament(), or has just returned from it
TournamentPoint == pc = "tournament" \/ InGame

\* winners is non-empty and its records present one root
WinnersAgree ==
    /\ Len(winners) >= 1
    /\ \A j, k \in 1..Len(winners) : isUint8ArrayEq(winners[j].root, winners[k].root)

InWinners(info) == \E k \in 1..Len(winners) : winners[k] = info

\* number of survivors the tournament has taken up so far
Processed == IF pc = "tournament" THEN ti ELSE ti + 1

ProcessedAgree == TournamentPoint => WinnersAgree

\* the winners are survivors that were processed
WinnersProcessed ==
    (TournamentPoint /\ validProverInfos # <<>>) =>
        \A k \in 1..Len(winners) :
            \E j \in 1..Processed : validProverInfos[j] = winners[k]

\* C24: at every point of the tournament winners is non-empty and its records
\* have equal roots; a processed survivor leaves (or stays out of) winners
\* only at the end of a game, either as the challenger that lost it or as a
\* member of the pool whose winners[0] lost it, and never comes back.
C24_TournamentInvariant ==
    [][
       /\ ProcessedAgree'
       /\ WinnersProcessed'
       /\ (TournamentPoint /\ TournamentPoint') =>
             \A j \in 1..Len(validProverInfos) :
                LET info == validProverInfos[j]
                IN  /\ (InWinners(info) /\ ~InWinners(info)') =>
                           (/\ InGame /\ pc' = "tournament"
                            /\ last'.verdict = "false"
                            /\ last'.prover \in {currWinner.index, currProver.index}
                            /\ winners' = <<currProver>>)
                    /\ (~InWinners(info) /\ j <= ti /\ pc = "tournament") =>
                           ~InWinners(info)'
                    /\ (InGame /\ j = ti + 1 /\ pc' = "tournament"
                            /\ ~InWinners(info)') =>
                           (last'.verdict = "true" /\ winners' = winners)
                    /\ (InGame /\ j <= ti /\ ~InWinners(info)) => ~InWinners(info)'
    ]_vars

\* C24 witness: a pooled survivor is out of winners because winners[0] lost
\* a game, and the winners that replaced the pool present one root
C24_Witness ==
    /\ pc = "tournament" /\ ti = Len(validProverInfos) /\ ti = 3
    /\ validProverInfos[1].root = validProverInfos[2].root
    /\ winners = <<validProverInfos[3]>>
    /\ last.verdict = "false"

\* one step of the recursion of treeVsTree and of the loop of tournament
TerminationStep ==
    /\ (pc = "getNode1") =>
           (stepsToLeafs > 0 /\ stepsToLeafs' = stepsToLeafs /\ pc' = "getNode2")
    /\ (pc = "getNode2") =>
           \/ pc' = "tournament" /\ last'.verdict \in {"true", "false"}
           \/ pc' = "done" /\ result'.kind = "error"
           \/ /\ stepsToLeafs > 0 /\ stepsToLeafs' = stepsToLeafs - 1
              /\ last'.verdict = "recurse"
              /\ IF stepsToLeafs' = 0
                 THEN pc' = "getLeaf1" /\ period' = index' + offset'
                 ELSE pc' = "getNode1"
    /\ (pc = "tournament" /\ ti < Len(validProverInfos) /\ pc' = "tournament") =>
           ti' = ti + 1
    /\ (pc = "tournament" /\ InGame') =>
           (ti' = ti /\ ti < Len(validProverInfos) /\ games' = games + 1)
    /\ (InGame /\ InGame') => ti' = ti
    /\ (InGame /\ pc' = "tournament") => ti' = ti + 1
    /\ (pc' = "final") => ti' = IF validProverInfos' = <<>> THEN 1
                                ELSE Len(validProverInfos')
    /\ (pc = "final") => (ti' = ti /\ pc' \in {"final", "done"})

\* C25: every prover query returning, sync() ends with a result or an error;
\* a level of treeVsTree gives a verdict or goes one level down, returning the
\* leaf index at depth 0, and the tournament takes up each survivor once.
C25_Termination ==
    /\ [][TerminationStep]_vars
    /\ <>(pc = "done" /\ result.kind \in {"ok", "error"})

\* C25 witness: sync() returned after a game that went down every level of
\* the peak and asked for every leaf and update
C25_Witness ==
    /\ pc = "done" /\ result.kind = "ok"
    /\ Len(validProverInfos) = 2 /\ ti = 2 /\ games = 1
    /\ queries.getNode1 = LiveDepth /\ queries.getNode2 = LiveDepth
    /\ queries.getLeaf = 3 /\ queries.getUpdate = 2

\* C26: whatever the interleaving of the invocations, oldestBlockNumber does
\* not exceed latestBlockNumber and every block number from the one to the
\* other has an entry in blockHashes that is the hash of the ancestor of that
\* height of the trusted block.
C26_BlockHashCache ==
    /\ oldestBlockNumber <= latestBlockNumber
    /\ \A b \in oldestBlockNumber..latestBlockNumber : blockHashes[b] = BlockHash(b)

\* the account as the proofs against the state root show it
IsProven(account) ==
    /\ account.nonce = TrueAccount(account.address).nonce
    /\ account.balance = TrueAccount(account.address).balance
    /\ account.codeHash = TrueAccount(account.address).codeHash
    /\ account.storage = {<<StorageKey, StorageValue(account.address)>>}
    /\ keccak256(account.code) = TrueAccount(account.address).codeHash

\* C27: every account, storage slot and code in the VM state of an invocation
\* is the one its proof against the state root shows, with the code of the
\* proven codeHash; an answer that fails verifyProof or verifyCodeHash makes
\* the call fail with 'Invalid RPC proof'.
C27_OnlyProvenAccounts ==
    \A c \in Callers :
        /\ \A account \in calls[c].vm : IsProven(account)
        /\ (calls[c].how # "none"
                /\ (~calls[c].isAccountCorrect \/ ~calls[c].isCodeCorrect)) =>
               (calls[c].at = "failed" /\ calls[c].error = "Invalid RPC proof")

====
